---- MODULE Spec2Model ----
(***************************************************************************)
(* SplitEntryStrategy (src/src/strategies/split_entry_strategy.py): the    *)
(* per-symbol position map, the monitor loop and its symbol checks, and    *)
(* the entry / exit tasks with their paired-order slice attempts.          *)
(*                                                                         *)
(* One step of the model is one run of a coroutine between two awaits      *)
(* (asyncio runs one coroutine at a time).  What the venues answer is      *)
(* drawn from small sets at the step that consumes the answer.             *)
(*                                                                         *)
(* Units.  Premiums are in basis points (1/100 of a percent), sizes in     *)
(* 1/100000 of a coin, KRW and USD amounts in whole units.                 *)
(***************************************************************************)
EXTENDS Integers, Sequences, FiniteSets, TLC

\* ---------------------------------------------------------------- bounds
\* Largest number of open slices of a position built before start().
MaxSetup == 3

\* The configured maximum number of concurrent positions (max_positions of
\* the configuration handed to the strategy; src/config.py has 10), taken
\* below the number of symbols.
max_positions == 1

Symbols == {"BTC", "XRP"}
GlobalExchanges == <<"okx", "gate">>
NoExchange == "None"

\* Quotes the venues can answer with.
UpbitAsks == {99000, 100200}
OkxBids == {100}
GateBids == {100, 101}
TickerRates == {1000}
BookSizes == {5000, 2000000}
\* Sizes are counted in 1/SizeUnit of a coin.
SizeUnit == 10 ^ 5

\* ------------------------------------------------------ program constants
entry_amount_krw == 10000
max_amount_per_coin == 30000
entry_threshold == -100
exit_threshold == 10
FallbackRate == 1365

\* ----------------------------------------------------------------- state
VARIABLES
    running,        \* self.running
    monitor,        \* the monitor task: "none", "alive", "cancelled"
    positions,      \* self.positions: symbol -> position
    active_tasks,   \* the symbols that are keys of self.active_tasks
    usdt_rates,     \* calculator.usdt_rates['upbit'], 0 when absent
    chk,            \* symbol -> a _check_and_execute_symbol is in flight
    pc,             \* symbol -> where its entry / exit task stands
    data,           \* symbol -> the premium data the task holds
    loc,            \* symbol -> the locals of the slice attempt
    att,            \* symbol -> record of the current / last slice attempt
    call,           \* one call of a function on its own: arguments, result
    adapter         \* one exchange adapter: its clock, last_request_time
                    \* and the request() calls running on it

vars == <<running, monitor, positions, active_tasks, usdt_rates, chk, pc,
          data, loc, att, call, adapter>>

\* -------------------------------------------------------------- positions
\* The defaultdict's factory (lines 49-56).
DefaultPosition ==
    [count |-> 0, total_krw |-> 0, global_exchange |-> NoExchange,
     entries |-> <<>>, avg_entry_premium |-> 0, status |-> "idle"]

\* sum(e['amount'] ...) and sum(e['premium'] * e['amount'] ...) (310-313).
RECURSIVE SumAmount(_)
SumAmount(es) ==
    IF es = <<>> THEN 0 ELSE Head(es).amount + SumAmount(Tail(es))

RECURSIVE SumWeighted(_)
SumWeighted(es) ==
    IF es = <<>> THEN 0
    ELSE Head(es).premium * Head(es).amount + SumWeighted(Tail(es))

\* Integer quotient rounded toward minus infinity (\div), written out so
\* that negative premiums are handled the same way everywhere.
FloorDiv(a, b) == a \div b

\* avg_entry_premium taken from the newest slice alone.
avg_entry_premium_newest(entries) == entries[Len(entries)].premium

\* The average of _handle_entry (310-314): weighted_premium / total_weight
\* over position['entries'].
avg_entry_premium(entries) ==
    FloorDiv(SumWeighted(entries), SumAmount(entries))

\* ---------------------------------------------------------- premium scan
NoData ==
    [ok |-> FALSE, premium |-> 0, global_exchange |-> NoExchange,
     global_bid |-> 0, funding_rate |-> 0, korean_ask |-> 0, usdt_rate |-> 0]

NullBook == [kind |-> "null", bid |-> 0, ask |-> 0, size |-> 0, funding |-> 0]
EmptyBook == [kind |-> "empty", bid |-> 0, ask |-> 0, size |-> 0, funding |-> 0]

\* The funding rates a venue can report.
Fundings == {-1, 0, 1}

\* What connector.get_funding_rate answers (connector.py 207-234): a rate,
\* or None when the venue's call failed (the adapters catch their own
\* exceptions and return None, okx.py 261-274).
FundingAnswers ==
    {[null |-> TRUE, rate |-> 0]} \cup
    {[null |-> FALSE, rate |-> f] : f \in Fundings}

\* Lines 242-246: a null funding rate is taken as 0.
funding_of(answer) == IF answer.null THEN 0 ELSE answer.rate

UpbitScanQuotes ==
    {NullBook, EmptyBook} \cup
    {[kind |-> "ok", bid |-> a - 100, ask |-> a, size |-> 0, funding |-> 0] :
        a \in UpbitAsks}

\* The order books a foreign venue can answer a scan with.
ForeignScanBooks(bids) ==
    {NullBook, EmptyBook} \cup
    {[kind |-> "ok", bid |-> b, ask |-> b + 1, size |-> 0, funding |-> 0] :
        b \in bids}

\* What the loop of _get_best_premium holds of one venue after its two
\* calls (231-246): the funding rate is asked for only once the book has
\* been read.
ScanQuote(book, answer) ==
    IF book.kind = "ok" THEN [book EXCEPT !.funding = funding_of(answer)]
    ELSE book

ForeignScanQuotes(bids) ==
    {ScanQuote(b, a) : b \in ForeignScanBooks(bids), a \in FundingAnswers}

\* ((upbit_ask / usdt_rate - best_price) / best_price) * 100 (262-263), in
\* basis points, rounded toward minus infinity.  At the quotes of UpbitAsks,
\* OkxBids, GateBids and the rates used here, the rounded value compares with
\* entry_threshold and exit_threshold as the exact one does.
PremiumBp(ask, rate, bid) == FloorDiv((ask - bid * rate) * 10000, bid * rate)

\* calculate_premium with the percentage taken of the domestic price in
\* place of the foreign one.
calculate_premium_of_domestic(korean_price, cached_rate, global_price) ==
    LET usdt_rate == IF cached_rate = 0 THEN FallbackRate ELSE cached_rate
    IN  [premium |-> IF global_price > 0
                     THEN FloorDiv((korean_price - global_price * usdt_rate)
                                       * 10000, korean_price)
                     ELSE 0,
         usdt_rate |-> usdt_rate]

\* PremiumCalculator.calculate_premium (premium_calculator.py 45-78): the
\* premium and the usdt_rate of its details; cached_rate is
\* self.usdt_rates.get(korean_exchange), 0 when absent.
calculate_premium(korean_price, cached_rate, global_price) ==
    LET usdt_rate == IF cached_rate = 0 THEN FallbackRate ELSE cached_rate
    IN  [premium |-> IF global_price > 0
                     THEN PremiumBp(korean_price, usdt_rate, global_price)
                     ELSE 0,
         usdt_rate |-> usdt_rate]

\* BestGlobal with the loop left (break) at the first venue that has no
\* quote, instead of going on to the next venue.
RECURSIVE BestGlobalBreaks(_, _, _)
BestGlobalBreaks(i, quotes, best) ==
    IF i > Len(GlobalExchanges) THEN best
    ELSE LET q == quotes[i]
         IN  IF q.kind # "ok" THEN best
             ELSE BestGlobalBreaks(i + 1, quotes,
                     IF best.exchange = NoExchange \/ q.bid > best.bid
                     THEN [exchange |-> GlobalExchanges[i], bid |-> q.bid,
                           funding |-> q.funding]
                     ELSE best)

\* The loop over ['okx', 'gate'] (227-256): a venue with no book, or with an
\* empty book (IndexError, caught at 255), is skipped; a venue replaces the
\* best one only with a strictly higher bid.  The funding rate is recorded,
\* not tested.
RECURSIVE BestGlobal(_, _, _)
BestGlobal(i, quotes, best) ==
    IF i > Len(GlobalExchanges) THEN best
    ELSE LET q == quotes[i]
             better == q.kind = "ok" /\ (best.exchange = NoExchange \/ q.bid > best.bid)
         IN  BestGlobal(i + 1, quotes,
                 IF better
                 THEN [exchange |-> GlobalExchanges[i], bid |-> q.bid,
                       funding |-> q.funding]
                 ELSE best)

\* get_best_premium without lines 218-219: the missing rate is reported
\* as it is and the premium is taken against a rate of 1.
get_best_premium_no_fallback(upbit, okx, gate, cached_rate) ==
    IF upbit.kind # "ok" THEN NoData
    ELSE LET usdt_rate == IF cached_rate = 0 THEN 1 ELSE cached_rate
             best == BestGlobal(1, <<okx, gate>>,
                        [exchange |-> NoExchange, bid |-> 0, funding |-> 0])
         IN  IF best.exchange = NoExchange THEN NoData
             ELSE [ok |-> TRUE,
                   premium |-> PremiumBp(upbit.ask \div 100, usdt_rate,
                                         best.bid),
                   global_exchange |-> best.exchange,
                   global_bid |-> best.bid,
                   funding_rate |-> best.funding,
                   korean_ask |-> upbit.ask,
                   usdt_rate |-> cached_rate]

\* _get_best_premium (204-281).
get_best_premium(upbit, okx, gate, cached_rate) ==
    IF upbit.kind # "ok" THEN NoData
    ELSE LET usdt_rate == IF cached_rate = 0 THEN FallbackRate ELSE cached_rate
             best == BestGlobal(1, <<okx, gate>>,
                        [exchange |-> NoExchange, bid |-> 0, funding |-> 0])
         IN  IF best.exchange = NoExchange THEN NoData
             ELSE [ok |-> TRUE,
                   premium |-> PremiumBp(upbit.ask, usdt_rate, best.bid),
                   global_exchange |-> best.exchange,
                   global_bid |-> best.bid,
                   funding_rate |-> best.funding,
                   korean_ask |-> upbit.ask,
                   usdt_rate |-> usdt_rate]

\* What a task keeps of a scan result: _handle_entry reads global_exchange of
\* premium_data (288), _execute_entry reads global_exchange and premium of
\* current_data (396-527); the funding rate of that scan is kept in att.
Kept(d) == [NoData EXCEPT !.ok = TRUE, !.premium = d.premium,
                          !.global_exchange = d.global_exchange]

\* Every result one scan can give under the cached rate.
ScanResults(cached_rate) ==
    {get_best_premium(u, o, g, cached_rate) :
        u \in UpbitScanQuotes, o \in ForeignScanQuotes(OkxBids),
        g \in ForeignScanQuotes(GateBids)}

\* --------------------------------------------------------- slice attempts
NoSlice == [timestamp |-> 0, amount |-> 0, premium |-> 0, spot_size |-> 0,
            futures_size |-> 0]

NoLoc == [upbit_ob |-> NullBook, global_ob |-> NullBook, entry |-> NoSlice,
          krw |-> 0, spot_size |-> 0, futures_size |-> 0]

\* The record of a symbol's latest slice attempt (one call of _execute_entry
\* or _execute_exit), kept until the symbol is checked again or, for an
\* attempt that has returned, until stop(): the orders it placed so far;
\* spot_ok / futures_ok, whether connector.place_order answers its two leg
\* orders with a response (TRUE) or with None; of the scan that preceded it
\* in its loop iteration (298, 348), the funding rate for an entry and
\* whether its premium met the threshold of the attempt's kind; the entries
\* at its start; how it returned ("pending" while it runs, "cancelled" when
\* stop() ended it).
NoAttempt == [kind |-> "none", result |-> "none", orders |-> <<>>,
              spot_ok |-> FALSE, futures_ok |-> FALSE, funding |-> 0,
              threshold_met |-> FALSE, before |-> <<>>]

NewAttempt(kind, d, entries) ==
    [kind |-> kind, result |-> "pending", orders |-> <<>>,
     spot_ok |-> FALSE, futures_ok |-> FALSE,
     funding |-> IF kind = "entry" THEN d.funding_rate ELSE 0,
     threshold_met |-> IF kind = "entry" THEN d.premium <= entry_threshold
                                          ELSE d.premium >= exit_threshold,
     before |-> entries]

Order(role, exchange, side, size) ==
    [role |-> role, exchange |-> exchange, side |-> side, size |-> size]

\* The order books a slice attempt can be answered with: none, one with
\* empty sides, or a top of book.
UpbitExecBooks ==
    {NullBook, EmptyBook} \cup
    {[kind |-> "ok", bid |-> a - 100, ask |-> a, size |-> z, funding |-> 0] :
        a \in UpbitAsks, z \in BookSizes}

ForeignExecBooks(exchange) ==
    {NullBook, EmptyBook} \cup
    {[kind |-> "ok", bid |-> b, ask |-> b + 1, size |-> z, funding |-> 0] :
        b \in (IF exchange = "okx" THEN OkxBids ELSE GateBids),
        z \in BookSizes}

\* No adapter is followed.
NoAdapter == [now |-> 0, last_request_time |-> 0, req |-> <<>>, sent |-> <<>>]

\* No function is called on its own.
NoCall == [fn |-> "none", args |-> <<>>, result |-> <<>>]

Init ==
    /\ running = FALSE
    /\ monitor = "none"
    /\ positions = [s \in Symbols |-> DefaultPosition]
    /\ active_tasks = {}
    /\ usdt_rates = 0
    /\ chk = [s \in Symbols |-> FALSE]
    /\ pc = [s \in Symbols |-> "none"]
    /\ data = [s \in Symbols |-> NoData]
    /\ loc = [s \in Symbols |-> NoLoc]
    /\ att = [s \in Symbols |-> NoAttempt]
    /\ call = NoCall
    /\ adapter = NoAdapter

\* A position with open slices put in place before start(), as
\* test_exit_conditions builds it (tests/test_split_entry.py 110-122: three
\* slices, total_krw 30000), with slice records of the shape _execute_entry
\* appends (520-528).  The slices are within max_amount_per_coin, as the
\* loop of _handle_entry leaves them (294).
SetupSlice(i) ==
    [timestamp |-> i, amount |-> entry_amount_krw, premium |-> 10 * i - 130,
     spot_size |-> 10000, futures_size |-> 10000]

SetupPosition(s) ==
    /\ monitor = "none"
    /\ positions[s] = DefaultPosition
    /\ \E k \in 1..MaxSetup, ge \in {"okx", "gate"} :
         LET es == [i \in 1..k |-> SetupSlice(i)]
         IN  /\ k * entry_amount_krw <= max_amount_per_coin
             /\ positions' = [positions EXCEPT ![s] =
                 [count |-> k, total_krw |-> k * entry_amount_krw,
                  global_exchange |-> ge, entries |-> es,
                  avg_entry_premium |-> FloorDiv(SumWeighted(es), SumAmount(es)),
                  status |-> "holding"]]
    /\ UNCHANGED <<running, monitor, active_tasks, usdt_rates, chk, pc, data,
                   loc, att, call, adapter>>

\* start() (65-84): the rate is fetched (it stays absent when the ticker
\* call fails) and the monitor task is created.
Start ==
    /\ monitor = "none"
    /\ running' = TRUE
    /\ \E r \in TickerRates \cup {0} : usdt_rates' = r
    /\ monitor' = "alive"
    /\ UNCHANGED <<positions, active_tasks, chk, pc, data, loc, att, call, adapter>>

\* MonitorBatch without the test of line 113: a check is created for every
\* symbol, in active_tasks or not.
MonitorBatchNoSkip ==
    /\ monitor = "alive"
    /\ running
    /\ \A s \in Symbols : ~chk[s]
    /\ chk' = [s \in Symbols |-> TRUE]
    /\ att' = [s \in Symbols |->
                 IF s \notin active_tasks THEN NoAttempt ELSE att[s]]
    /\ UNCHANGED <<running, monitor, positions, active_tasks, usdt_rates, pc,
                   data, loc, call, adapter>>

\* One pass of the batch loop of _monitor_loop (102-126): a check is created
\* for every symbol that is not a key of active_tasks, and the loop waits
\* for all of them (gather) before it goes on.
MonitorBatch ==
    /\ monitor = "alive"
    /\ running
    /\ \A s \in Symbols : ~chk[s]
    /\ \E s \in Symbols : s \notin active_tasks
    /\ chk' = [s \in Symbols |-> s \notin active_tasks]
    /\ att' = [s \in Symbols |->
                 IF s \notin active_tasks THEN NoAttempt ELSE att[s]]
    /\ UNCHANGED <<running, monitor, positions, active_tasks, usdt_rates, pc,
                   data, loc, call, adapter>>

\* check_and_execute_symbol without the test of line 148: an entry task is
\* started whatever the status of the position.
check_and_execute_symbol_any_status(s) ==
    /\ chk[s]
    /\ chk' = [chk EXCEPT ![s] = FALSE]
    /\ \E d \in ScanResults(usdt_rates) :
         LET position == positions[s] IN
         IF ~d.ok THEN UNCHANGED <<active_tasks, pc, data>>
         ELSE IF /\ d.premium <= entry_threshold
                 /\ position.total_krw < max_amount_per_coin
                 /\ d.funding_rate >= 0
         THEN /\ active_tasks' = active_tasks \cup {s}
              /\ pc' = [pc EXCEPT ![s] = "e_created"]
              /\ data' = [data EXCEPT ![s] =
                     [Kept(d) EXCEPT !.premium = 0]]
         ELSE IF /\ d.premium >= exit_threshold
                 /\ position.count > 0
                 /\ position.status = "holding"
         THEN /\ active_tasks' = active_tasks \cup {s}
              /\ pc' = [pc EXCEPT ![s] = "x_created"]
              /\ UNCHANGED data
         ELSE UNCHANGED <<active_tasks, pc, data>>
    /\ UNCHANGED <<running, monitor, positions, usdt_rates, loc, att, call, adapter>>

\* check_and_execute_symbol without the handlers of 172-173 and 121
\* (return_exceptions) and 130-132: a check whose scan gives nothing ends
\* the monitor task and with it the other checks of the batch.
check_and_execute_symbol_unguarded(s) ==
    /\ chk[s]
    /\ \E d \in ScanResults(usdt_rates) :
         LET position == positions[s] IN
         IF ~d.ok
         THEN /\ monitor' = "failed"
              /\ chk' = [u \in Symbols |-> FALSE]
              /\ UNCHANGED <<active_tasks, pc, data>>
         ELSE /\ monitor' = monitor
              /\ chk' = [chk EXCEPT ![s] = FALSE]
              /\ IF /\ d.premium <= entry_threshold
                    /\ position.total_krw < max_amount_per_coin
                    /\ position.status = "idle"
                    /\ d.funding_rate >= 0
                 THEN /\ active_tasks' = active_tasks \cup {s}
                      /\ pc' = [pc EXCEPT ![s] = "e_created"]
                      /\ data' = [data EXCEPT ![s] =
                             [Kept(d) EXCEPT !.premium = 0]]
                 ELSE IF /\ d.premium >= exit_threshold
                         /\ position.count > 0
                         /\ position.status = "holding"
                 THEN /\ active_tasks' = active_tasks \cup {s}
                      /\ pc' = [pc EXCEPT ![s] = "x_created"]
                      /\ UNCHANGED data
                 ELSE UNCHANGED <<active_tasks, pc, data>>
    /\ UNCHANGED <<running, positions, usdt_rates, loc, att, call, adapter>>

\* _check_and_execute_symbol (135-173), from the answer of its scan on.
check_and_execute_symbol(s) ==
    /\ chk[s]
    /\ chk' = [chk EXCEPT ![s] = FALSE]
    /\ \E d \in ScanResults(usdt_rates) :
         LET position == positions[s] IN
         IF ~d.ok THEN UNCHANGED <<active_tasks, pc, data>>
         ELSE IF /\ d.premium <= entry_threshold
                 /\ position.total_krw < max_amount_per_coin
                 /\ position.status = "idle"
                 /\ d.funding_rate >= 0
         THEN /\ active_tasks' = active_tasks \cup {s}
              /\ pc' = [pc EXCEPT ![s] = "e_created"]
              /\ data' = [data EXCEPT ![s] =
                     [Kept(d) EXCEPT !.premium = 0]]
         ELSE IF /\ d.premium >= exit_threshold
                 /\ position.count > 0
                 /\ position.status = "holding"
         THEN /\ active_tasks' = active_tasks \cup {s}
              /\ pc' = [pc EXCEPT ![s] = "x_created"]
              /\ UNCHANGED data
         ELSE UNCHANGED <<active_tasks, pc, data>>
    /\ UNCHANGED <<running, monitor, positions, usdt_rates, loc, att, call, adapter>>

\* ------------------------------------------------------------ entry task
\* The value that stands for "the call raised".
Raised == -1

\* EXCHANGE_FEES (21-26) in 1/10000.
EXCHANGE_FEES(exchange) == IF exchange = "bithumb" THEN 25 ELSE 5

\* MIN_ORDER_VALUE (29-34): KRW on upbit / bithumb, USD on okx / gate.
MIN_ORDER_VALUE(exchange) ==
    IF exchange = "upbit" THEN 5000
    ELSE IF exchange = "bithumb" THEN 1000 ELSE 1

\* _round_size with a rounding mode the decimal module accepts:
\* quantize(..., rounding=ROUND_DOWN) with the default quantum of the symbol
\* (688-693).
round_size_down(size, exchange, symbol) ==
    LET quantum == IF symbol = "BTC" THEN SizeUnit \div 100000
                   ELSE IF symbol = "ETH" THEN SizeUnit \div 10000
                   ELSE SizeUnit \div 100
    IN  (size \div quantum) * quantum

\* _round_size (664-697).  Every path ends in size.quantize(quantum,
\* rounding='down'): the decimal module takes only its ROUND_* constants
\* ('ROUND_DOWN'), and rejects the string 'down' with TypeError (KeyError in
\* the pure-Python implementation).  The first raise is caught at 695, the
\* handler calls quantize the same way, and that raise leaves _round_size.
round_size(size, exchange, symbol) == Raised

\* Whether the name upbit_size is bound where _execute_entry reads it (503,
\* 526).  The function binds upbit_size_after_fee, upbit_ask_size, ... but
\* never upbit_size, so the read raises NameError.
upbit_size_bound == FALSE

\* What follows the loop of _handle_entry (327, 332-335), for the position
\* value pos: the status is set to 'holding' whatever the count.
EntryEnd(s, pos) ==
    /\ positions' = [positions EXCEPT ![s] = [pos EXCEPT !.status = "holding"]]
    /\ pc' = [pc EXCEPT ![s] = "none"]
    /\ data' = [data EXCEPT ![s] = NoData]
    /\ active_tasks' = active_tasks \ {s}

\* The while condition of _handle_entry (294-295).
EntryLoop(s, pos) ==
    IF pos.total_krw < max_amount_per_coin /\ running
    THEN /\ positions' = [positions EXCEPT ![s] = pos]
         /\ pc' = [pc EXCEPT ![s] = "e_scan"]
         /\ UNCHANGED <<data, active_tasks>>
    ELSE EntryEnd(s, pos)

\* _handle_entry up to its first await (286-298).  Nothing between 286 and
\* 327 raises an Exception (_get_best_premium and _execute_entry catch their
\* own), so the handler at 329-331 is not a step of the model.
EntryStart(s) ==
    /\ EntryLoop(s, [positions[s] EXCEPT
                        !.status = "entering",
                        !.global_exchange = data[s].global_exchange])
    /\ UNCHANGED <<usdt_rates, loc, att>>

\* EntryFailed with a compensating sell on upbit placed on every failure,
\* whether or not a leg had gone out.
EntryFailedCompensates(s, a) ==
    /\ att' = [att EXCEPT ![s] = [a EXCEPT
           !.result = "False",
           !.orders = Append(a.orders, Order("comp", "upbit", "sell", 0))]]
    /\ loc' = [loc EXCEPT ![s] = NoLoc]
    /\ EntryEnd(s, positions[s])

\* _execute_entry returned False (400, 407, 437, 442, 517, 534): the loop of
\* _handle_entry breaks (319-321).
EntryFailed(s, a) ==
    /\ att' = [att EXCEPT ![s] = [a EXCEPT !.result = "False"]]
    /\ loc' = [loc EXCEPT ![s] = NoLoc]
    /\ EntryEnd(s, positions[s])

\* EntryScan with the venue of the re-scan written back to the position.
EntryScanRebinds(s) ==
    \E d \in ScanResults(usdt_rates) :
        IF ~d.ok \/ d.premium > entry_threshold
        THEN /\ EntryEnd(s, positions[s])
             /\ UNCHANGED <<usdt_rates, loc, att>>
        ELSE /\ data' = [data EXCEPT ![s] = Kept(d)]
             /\ att' = [att EXCEPT ![s] =
                    NewAttempt("entry", d, positions[s].entries)]
             /\ pc' = [pc EXCEPT ![s] = "e_quotes"]
             /\ positions' = [positions EXCEPT
                    ![s].global_exchange = d.global_exchange]
             /\ UNCHANGED <<active_tasks, usdt_rates, loc>>

\* The re-scan of the loop (298-301) and the call of _execute_entry, up to
\* its first await (395).
EntryScan(s) ==
    \E d \in ScanResults(usdt_rates) :
        IF ~d.ok \/ d.premium > entry_threshold
        THEN /\ EntryEnd(s, positions[s])
             /\ UNCHANGED <<usdt_rates, loc, att>>
        ELSE /\ data' = [data EXCEPT ![s] = Kept(d)]
             /\ att' = [att EXCEPT ![s] =
                    NewAttempt("entry", d, positions[s].entries)]
             /\ pc' = [pc EXCEPT ![s] = "e_quotes"]
             /\ UNCHANGED <<positions, active_tasks, usdt_rates, loc>>

\* The sizes of the two legs (417-451): ok is FALSE when _round_size raises
\* or the minimum-value check rejects.
EntrySizes(s, upbit_ask, global_bid, global_bid_size, exchange) ==
    LET krw == entry_amount_krw
        krw_after_fee == (krw * (10000 - EXCHANGE_FEES("upbit"))) \div 10000
        raw == (krw_after_fee * SizeUnit) \div upbit_ask
        upbit_size_after_fee == round_size(raw, "upbit", s)
        coin_value_usd == upbit_size_after_fee * global_bid
        kept == 10000 - EXCHANGE_FEES(exchange)
        \* coin_value_usd * 10000 \div kept, in two parts to stay small
        raw_futures == (coin_value_usd \div kept) * 10000
                           + ((coin_value_usd % kept) * 10000) \div kept
        futures_size == IF upbit_size_after_fee = Raised THEN Raised
                        ELSE round_size(raw_futures, exchange, s)
        scaled == (global_bid_size * 95) \div 100
        rejected == [ok |-> FALSE, krw |-> 0, spot_size |-> 0,
                     futures_size |-> 0]
    IN  IF upbit_size_after_fee = Raised \/ futures_size = Raised
        THEN rejected
        ELSE IF krw < MIN_ORDER_VALUE("upbit")
        THEN rejected
        ELSE IF futures_size * global_bid < MIN_ORDER_VALUE(exchange) * SizeUnit
        THEN rejected
        ELSE IF futures_size > global_bid_size
        THEN [ok |-> TRUE,
              krw |-> (krw * scaled) \div futures_size,
              spot_size |-> (upbit_size_after_fee * scaled) \div futures_size,
              futures_size |-> scaled]
        ELSE [ok |-> TRUE, krw |-> krw, spot_size |-> upbit_size_after_fee,
              futures_size |-> futures_size]

\* The two order books (395-400) and the rate refresh (403-407) have
\* returned; the books are read (410-415), the legs are sized (417-451) and
\* dispatched (465-491).  The three awaits are taken as one step: the task
\* changes nothing between them.  For an attempt that has its quotes and its
\* rate, spot_ok / futures_ok are the answers the venues have for its two leg
\* orders: a response, or None.
EntryQuotes(s) ==
    \E u \in UpbitExecBooks, g \in ForeignExecBooks(data[s].global_exchange),
       t \in TickerRates \cup {0} :
        LET rate == IF t = 0 THEN usdt_rates ELSE t
            ge == data[s].global_exchange
        IN  IF u.kind = "null" \/ g.kind = "null"
            THEN EntryFailed(s, att[s]) /\ UNCHANGED usdt_rates
            ELSE /\ usdt_rates' = rate
                 /\ IF rate = 0 \/ u.kind = "empty" \/ g.kind = "empty"
                    THEN EntryFailed(s, att[s])
                    ELSE \E so \in BOOLEAN, fo \in BOOLEAN :
                         LET z == EntrySizes(s, u.ask, g.bid, g.size, ge)
                             a == [att[s] EXCEPT !.spot_ok = so,
                                                 !.futures_ok = fo]
                         IN
                         IF ~z.ok
                         THEN EntryFailed(s, a)
                         ELSE /\ att' = [att EXCEPT ![s] = [a EXCEPT !.orders =
                                  <<Order("leg", "upbit", "buy", z.spot_size),
                                    Order("leg", ge, "sell", z.futures_size)>>]]
                              /\ loc' = [loc EXCEPT ![s] = [NoLoc EXCEPT
                                     !.upbit_ob = u,
                                     !.global_ob = g,
                                     !.krw = z.krw,
                                     !.spot_size = z.spot_size,
                                     !.futures_size = z.futures_size]]
                              /\ pc' = [pc EXCEPT ![s] = "e_legs"]
                              /\ UNCHANGED <<positions, active_tasks, data>>

\* A successful slice in _handle_entry (305-325): the counters, the average
\* and the wait before the next slice.
EntrySucceeded(s, a, slice) ==
    LET p0 == positions[s]
        es == Append(p0.entries, slice)
        p1 == [p0 EXCEPT !.entries = es,
                         !.count = p0.count + 1,
                         !.total_krw = p0.total_krw + entry_amount_krw,
                         !.avg_entry_premium = avg_entry_premium(es)]
    IN  /\ att' = [att EXCEPT ![s] = [a EXCEPT !.result = "True"]]
        /\ loc' = [loc EXCEPT ![s] = NoLoc]
        /\ IF p1.total_krw < max_amount_per_coin
           THEN /\ positions' = [positions EXCEPT ![s] = p1]
                /\ pc' = [pc EXCEPT ![s] = "e_sleep"]
                /\ UNCHANGED <<data, active_tasks>>
           ELSE EntryLoop(s, p1)

\* Both leg orders have returned (491-534).
EntryLegs(s) ==
    LET a == att[s]
        ge == data[s].global_exchange
    IN  IF a.spot_ok /\ a.futures_ok
        THEN IF upbit_size_bound
             THEN EntrySucceeded(s, a,
                     [timestamp |-> Len(positions[s].entries) + 1,
                      amount |-> entry_amount_krw,
                      premium |-> data[s].premium,
                      spot_size |-> loc[s].spot_size,
                      futures_size |-> loc[s].futures_size])
             ELSE EntryFailed(s, a)
        ELSE IF a.spot_ok
        THEN IF upbit_size_bound
             THEN /\ att' = [att EXCEPT ![s] = [a EXCEPT !.orders =
                         Append(a.orders, Order("comp", "upbit", "sell",
                                                loc[s].spot_size))]]
                  /\ pc' = [pc EXCEPT ![s] = "e_comp"]
                  /\ UNCHANGED <<positions, active_tasks, data, loc>>
             ELSE EntryFailed(s, a)
        ELSE IF a.futures_ok
        THEN /\ att' = [att EXCEPT ![s] = [a EXCEPT !.orders =
                    Append(a.orders, Order("comp", ge, "buy",
                                           loc[s].futures_size))]]
             /\ pc' = [pc EXCEPT ![s] = "e_comp"]
             /\ UNCHANGED <<positions, active_tasks, data, loc>>
        ELSE EntryFailed(s, a)

\* One run of the entry task between two awaits.
handle_entry(s) ==
    /\ pc[s] \in {"e_created", "e_scan", "e_quotes", "e_legs", "e_comp",
                  "e_sleep"}
    /\ CASE pc[s] = "e_created" -> EntryStart(s)
         [] pc[s] = "e_scan" -> EntryScan(s)
         [] pc[s] = "e_quotes" -> EntryQuotes(s)
         [] pc[s] = "e_legs" -> EntryLegs(s) /\ UNCHANGED usdt_rates
         [] pc[s] = "e_comp" ->
                EntryFailed(s, att[s]) /\ UNCHANGED usdt_rates
         [] pc[s] = "e_sleep" ->
                EntryLoop(s, positions[s]) /\ UNCHANGED <<usdt_rates, loc, att>>
    /\ UNCHANGED <<running, monitor, chk, call, adapter>>

\* ------------------------------------------------------------- exit task
\* ExitEnd with lines 379-381 left out of the reset: the status and the
\* total go back, the entries, the venue and the average stay.
ExitEndPartialReset(s, pos) ==
    /\ positions' = [positions EXCEPT ![s] =
           IF pos.count = 0
           THEN [pos EXCEPT !.status = "idle", !.total_krw = 0]
           ELSE pos]
    /\ pc' = [pc EXCEPT ![s] = "none"]
    /\ active_tasks' = active_tasks \ {s}

\* ExitEnd with the reset of the status taken out of its test on the count:
\* the task leaves 'idle' behind whatever is still open.
ExitEndIdleAlways(s, pos) ==
    /\ positions' = [positions EXCEPT ![s] =
           IF pos.count = 0
           THEN [pos EXCEPT !.status = "idle", !.total_krw = 0,
                            !.entries = <<>>,
                            !.global_exchange = NoExchange,
                            !.avg_entry_premium = 0]
           ELSE [pos EXCEPT !.status = "idle"]]
    /\ pc' = [pc EXCEPT ![s] = "none"]
    /\ active_tasks' = active_tasks \ {s}

\* What follows the loop of _handle_exit (375-381, 386-389), for the
\* position value pos: the reset when nothing is left, and only then.
ExitEnd(s, pos) ==
    /\ positions' = [positions EXCEPT ![s] =
           IF pos.count = 0
           THEN [pos EXCEPT !.status = "idle", !.total_krw = 0,
                            !.entries = <<>>,
                            !.global_exchange = NoExchange,
                            !.avg_entry_premium = 0]
           ELSE pos]
    /\ pc' = [pc EXCEPT ![s] = "none"]
    /\ active_tasks' = active_tasks \ {s}

\* ExitLoop with the test on the count left out of the while condition.
ExitLoopWhileRunning(s, pos) ==
    IF running
    THEN /\ positions' = [positions EXCEPT ![s] = pos]
         /\ pc' = [pc EXCEPT ![s] = "x_scan"]
         /\ active_tasks' = active_tasks
    ELSE ExitEnd(s, pos)

\* The while condition of _handle_exit (346).
ExitLoop(s, pos) ==
    IF pos.count > 0 /\ running
    THEN /\ positions' = [positions EXCEPT ![s] = pos]
         /\ pc' = [pc EXCEPT ![s] = "x_scan"]
         /\ active_tasks' = active_tasks
    ELSE ExitEnd(s, pos)

\* _handle_exit up to its first await (340-348).  Nothing between 340 and
\* 381 raises an Exception, so the handler at 383-385 is not a step of the
\* model.
ExitStart(s) ==
    /\ ExitLoop(s, [positions[s] EXCEPT !.status = "exiting"])
    /\ UNCHANGED <<loc, att>>

\* _execute_exit returned False (541, 553, 634, 640), leaving the position
\* as pos: the loop of _handle_exit breaks (367-369).
ExitFailed(s, a, pos) ==
    /\ att' = [att EXCEPT ![s] = [a EXCEPT !.result = "False"]]
    /\ loc' = [loc EXCEPT ![s] = NoLoc]
    /\ ExitEnd(s, pos)

\* Restored with the insert left out.
RestoredNothing(pos, entry) == pos

\* position['entries'].insert(0, entry) (552, 633).
Restored(pos, entry) == [pos EXCEPT !.entries = <<entry>> \o pos.entries]

\* ExitScan with the premium test of line 349 left out: an exit slice is
\* attempted whatever the premium of the re-scan.
ExitScanNoThreshold(s) ==
    \E d \in ScanResults(usdt_rates) :
        LET position == positions[s] IN
        IF ~d.ok
        THEN /\ ExitEnd(s, position)
             /\ UNCHANGED <<loc, att>>
        ELSE IF position.entries = <<>>
        THEN ExitFailed(s, NewAttempt("exit", d, <<>>), position)
        ELSE /\ positions' = [positions EXCEPT ![s].entries =
                    Tail(position.entries)]
             /\ loc' = [loc EXCEPT ![s] =
                    [NoLoc EXCEPT !.entry = Head(position.entries)]]
             /\ att' = [att EXCEPT ![s] =
                    NewAttempt("exit", d, position.entries)]
             /\ pc' = [pc EXCEPT ![s] = "x_books"]
             /\ active_tasks' = active_tasks

\* ExitScan with pop() in place of pop(0): the newest slice is taken.
ExitScanNewest(s) ==
    \E d \in ScanResults(usdt_rates) :
        LET position == positions[s]
            n == Len(position.entries)
        IN
        IF ~d.ok \/ d.premium < exit_threshold
        THEN /\ ExitEnd(s, position)
             /\ UNCHANGED <<loc, att>>
        ELSE IF position.entries = <<>>
        THEN ExitFailed(s, NewAttempt("exit", d, <<>>), position)
        ELSE /\ positions' = [positions EXCEPT ![s].entries =
                    SubSeq(position.entries, 1, n - 1)]
             /\ loc' = [loc EXCEPT ![s] =
                    [NoLoc EXCEPT !.entry = position.entries[n]]]
             /\ att' = [att EXCEPT ![s] =
                    NewAttempt("exit", d, position.entries)]
             /\ pc' = [pc EXCEPT ![s] = "x_books"]
             /\ active_tasks' = active_tasks

\* The re-scan of the loop (348-351) and _execute_exit up to its first
\* await (539-547): the oldest slice is popped before the books are asked
\* for.
ExitScan(s) ==
    \E d \in ScanResults(usdt_rates) :
        LET position == positions[s] IN
        IF ~d.ok \/ d.premium < exit_threshold
        THEN /\ ExitEnd(s, position)
             /\ UNCHANGED <<loc, att>>
        ELSE IF position.entries = <<>>
        THEN ExitFailed(s, NewAttempt("exit", d, <<>>), position)
        ELSE /\ positions' = [positions EXCEPT ![s].entries =
                    Tail(position.entries)]
             /\ loc' = [loc EXCEPT ![s] =
                    [NoLoc EXCEPT !.entry = Head(position.entries)]]
             /\ att' = [att EXCEPT ![s] =
                    NewAttempt("exit", d, position.entries)]
             /\ pc' = [pc EXCEPT ![s] = "x_books"]
             /\ active_tasks' = active_tasks

\* ExitBooks with the spot order awaited before the futures order is
\* created: only the domestic sell is out when the task next waits.
ExitBooksSpotFirst(s) ==
    \E u \in UpbitExecBooks,
       g \in ForeignExecBooks(positions[s].global_exchange) :
        LET position == positions[s]
            entry == loc[s].entry
        IN  IF u.kind = "null" \/ g.kind = "null"
            THEN ExitFailed(s, att[s], Restored(position, entry))
            ELSE IF u.kind = "empty" \/ g.kind = "empty"
            THEN ExitFailed(s, att[s], position)
            ELSE /\ att' = [att EXCEPT ![s] = [att[s] EXCEPT
                        !.orders =
                          <<Order("leg", "upbit", "sell", entry.spot_size)>>]]
                 /\ loc' = [loc EXCEPT ![s] = [loc[s] EXCEPT
                        !.spot_size = entry.spot_size,
                        !.futures_size = entry.futures_size]]
                 /\ pc' = [pc EXCEPT ![s] = "x_legs"]
                 /\ UNCHANGED <<positions, active_tasks>>

\* The two order books arrive (547-553); the sizes are taken from the slice
\* and cut to 95% of the top of book (564-573); the legs are dispatched
\* (580-605).  An empty side of a book raises IndexError at 556-561, which
\* is caught at 638 and returns False with the slice still popped.
ExitBooks(s) ==
    \E u \in UpbitExecBooks,
       g \in ForeignExecBooks(positions[s].global_exchange) :
        LET position == positions[s]
            entry == loc[s].entry
            spot_size == IF entry.spot_size > u.size
                         THEN (u.size * 95) \div 100 ELSE entry.spot_size
            futures_size == IF entry.futures_size > g.size
                            THEN (g.size * 95) \div 100
                            ELSE entry.futures_size
        IN  IF u.kind = "null" \/ g.kind = "null"
            THEN ExitFailed(s, att[s], Restored(position, entry))
            ELSE IF u.kind = "empty" \/ g.kind = "empty"
            THEN ExitFailed(s, att[s], position)
            ELSE /\ att' = [att EXCEPT ![s] = [att[s] EXCEPT
                        !.orders =
                          <<Order("leg", "upbit", "sell", spot_size),
                            Order("leg", position.global_exchange, "buy",
                                  futures_size)>>]]
                 /\ loc' = [loc EXCEPT ![s] = [loc[s] EXCEPT
                        !.spot_size = spot_size,
                        !.futures_size = futures_size]]
                 /\ pc' = [pc EXCEPT ![s] = "x_legs"]
                 /\ UNCHANGED <<positions, active_tasks>>

\* ExitSucceeded with += for -= at line 357: the total goes up.
ExitSucceededTotalAdded(s, a) ==
    LET p0 == positions[s]
        p1 == [p0 EXCEPT !.count = p0.count - 1,
                         !.total_krw = p0.total_krw + entry_amount_krw]
    IN  /\ att' = [att EXCEPT ![s] = [a EXCEPT !.result = "True"]]
        /\ loc' = [loc EXCEPT ![s] = NoLoc]
        /\ IF p1.count > 0
           THEN /\ positions' = [positions EXCEPT ![s] = p1]
                /\ pc' = [pc EXCEPT ![s] = "x_sleep"]
                /\ active_tasks' = active_tasks
           ELSE ExitLoop(s, p1)

\* ExitSucceeded with line 357 left out: the count goes down, the total
\* does not.
ExitSucceededTotalKept(s, a) ==
    LET p0 == positions[s]
        p1 == [p0 EXCEPT !.count = p0.count - 1]
    IN  /\ att' = [att EXCEPT ![s] = [a EXCEPT !.result = "True"]]
        /\ loc' = [loc EXCEPT ![s] = NoLoc]
        /\ IF p1.count > 0
           THEN /\ positions' = [positions EXCEPT ![s] = p1]
                /\ pc' = [pc EXCEPT ![s] = "x_sleep"]
                /\ active_tasks' = active_tasks
           ELSE ExitLoop(s, p1)

\* ExitSucceeded with the sleep of line 373 left out: the loop goes to its
\* next scan at once.
ExitSucceededNoDelay(s, a) ==
    LET p0 == positions[s]
        p1 == [p0 EXCEPT !.count = p0.count - 1,
                         !.total_krw = p0.total_krw - entry_amount_krw]
    IN  /\ att' = [att EXCEPT ![s] = [a EXCEPT !.result = "True"]]
        /\ loc' = [loc EXCEPT ![s] = NoLoc]
        /\ ExitLoop(s, p1)

\* A successful slice in _handle_exit (355-373).
ExitSucceeded(s, a) ==
    LET p0 == positions[s]
        p1 == [p0 EXCEPT !.count = p0.count - 1,
                         !.total_krw = p0.total_krw - entry_amount_krw]
    IN  /\ att' = [att EXCEPT ![s] = [a EXCEPT !.result = "True"]]
        /\ loc' = [loc EXCEPT ![s] = NoLoc]
        /\ IF p1.count > 0
           THEN /\ positions' = [positions EXCEPT ![s] = p1]
                /\ pc' = [pc EXCEPT ![s] = "x_sleep"]
                /\ active_tasks' = active_tasks
           ELSE ExitLoop(s, p1)

\* Both unwind orders have returned (605-636), each with a response or with
\* None.
ExitLegs(s) ==
    \E so \in BOOLEAN, fo \in BOOLEAN :
    LET a == [att[s] EXCEPT !.spot_ok = so, !.futures_ok = fo]
        position == positions[s]
    IN  IF a.spot_ok /\ a.futures_ok
        THEN ExitSucceeded(s, a)
        ELSE IF a.spot_ok
        THEN /\ att' = [att EXCEPT ![s] = [a EXCEPT !.orders =
                    Append(a.orders, Order("comp", "upbit", "buy",
                                           loc[s].spot_size))]]
             /\ pc' = [pc EXCEPT ![s] = "x_comp"]
             /\ UNCHANGED <<positions, active_tasks, loc>>
        ELSE IF a.futures_ok
        THEN /\ att' = [att EXCEPT ![s] = [a EXCEPT !.orders =
                    Append(a.orders, Order("comp", position.global_exchange,
                                           "sell", loc[s].futures_size))]]
             /\ pc' = [pc EXCEPT ![s] = "x_comp"]
             /\ UNCHANGED <<positions, active_tasks, loc>>
        ELSE ExitFailed(s, a, Restored(position, loc[s].entry))

\* One run of the exit task between two awaits.
handle_exit(s) ==
    /\ pc[s] \in {"x_created", "x_scan", "x_books", "x_legs", "x_comp",
                  "x_sleep"}
    /\ CASE pc[s] = "x_created" -> ExitStart(s)
         [] pc[s] = "x_scan" -> ExitScan(s)
         [] pc[s] = "x_books" -> ExitBooks(s)
         [] pc[s] = "x_legs" -> ExitLegs(s)
         [] pc[s] = "x_comp" ->
                ExitFailed(s, att[s], Restored(positions[s], loc[s].entry))
         [] pc[s] = "x_sleep" ->
                ExitLoop(s, positions[s]) /\ UNCHANGED <<loc, att>>
    /\ UNCHANGED <<running, monitor, usdt_rates, chk, data, call, adapter>>

\* ------------------------------------------------------------------ stop
\* stop() (86-96): running goes False and every task in active_tasks is
\* cancelled; the monitor's cancellation cancels the checks it is gathering.
\* CancelledError is not an Exception: it passes the except clauses and runs
\* only the finally clauses (332-335, 386-389) of the tasks that had started;
\* a task cancelled before its first run never enters its try block.
Stop ==
    /\ running
    /\ running' = FALSE
    /\ monitor' = "cancelled"
    /\ chk' = [s \in Symbols |-> FALSE]
    /\ active_tasks' = {s \in active_tasks : pc[s] \in {"e_created", "x_created"}}
    /\ pc' = [s \in Symbols |-> "none"]
    /\ loc' = [s \in Symbols |-> NoLoc]
    /\ att' = [s \in Symbols |->
                 IF att[s].result = "pending"
                 THEN [att[s] EXCEPT !.result = "cancelled"] ELSE NoAttempt]
    /\ data' = [s \in Symbols |-> NoData]
    /\ UNCHANGED <<positions, usdt_rates, call, adapter>>

Next ==
    \/ Start
    \/ Stop
    \/ MonitorBatch
    \/ \E s \in Symbols : SetupPosition(s)
    \/ \E s \in Symbols : check_and_execute_symbol(s)
    \/ \E s \in Symbols : handle_entry(s)
    \/ \E s \in Symbols : handle_exit(s)

Spec == Init /\ [][Next]_vars

\* ------------------------------------------------ functions on their own
\* _get_best_premium and the sizing of _execute_entry, each applied once to
\* arguments drawn from the quotes, rates and books used above.
ScanArgs ==
    [upbit : UpbitScanQuotes,
     okx : ForeignScanBooks(OkxBids), okx_funding : FundingAnswers,
     gate : ForeignScanBooks(GateBids), gate_funding : FundingAnswers,
     cached_rate : TickerRates \cup {0}]

SizeArgs ==
    [symbol : Symbols, upbit_ask : UpbitAsks,
     global_exchange : {"okx", "gate"},
     global_bid : OkxBids \cup GateBids, global_bid_size : BookSizes]

\* Prices of tests/test_premium_calculation.py (20-79) and a foreign price
\* that is zero or negative.
CalcArgs ==
    [korean_price : {99000, 100000, 103000, 136500},
     cached_rate : TickerRates \cup {0},
     global_price : {-1, 0, 100, 101}]

\* Sizes in 1/SizeUnit coin.
RoundArgs ==
    [size : {0, 1, 47, 4750, 10095, 1009500},
     exchange : {"upbit", "okx", "gate"},
     symbol : Symbols \cup {"ETH"}]

\* Slice records as _execute_entry appends them (520-528), one to three,
\* in every order.
AvgSlice(q) ==
    [timestamp |-> 0, amount |-> entry_amount_krw, premium |-> q,
     spot_size |-> 10000, futures_size |-> 10000]

AvgArgs ==
    UNION {[1..n -> {AvgSlice(q) : q \in {-120, -110, -100}}] : n \in 1..3}

PureInit ==
    /\ running = FALSE
    /\ monitor = "none"
    /\ positions = [s \in Symbols |-> DefaultPosition]
    /\ active_tasks = {}
    /\ usdt_rates = 0
    /\ chk = [s \in Symbols |-> FALSE]
    /\ pc = [s \in Symbols |-> "none"]
    /\ data = [s \in Symbols |-> NoData]
    /\ loc = [s \in Symbols |-> NoLoc]
    /\ att = [s \in Symbols |-> NoAttempt]
    /\ adapter = NoAdapter
    /\ \/ \E a \in ScanArgs :
             call = [fn |-> "get_best_premium", args |-> a, result |-> <<>>]
       \/ \E a \in SizeArgs :
             call = [fn |-> "sizes", args |-> a, result |-> <<>>]
       \/ \E a \in CalcArgs :
             call = [fn |-> "calculate_premium", args |-> a, result |-> <<>>]
       \/ \E a \in RoundArgs :
             call = [fn |-> "_round_size", args |-> a, result |-> <<>>]
       \/ \E a \in AvgArgs :
             call = [fn |-> "avg_entry_premium", args |-> a, result |-> <<>>]

\* _get_best_premium(symbol) answered with the quotes of call.args.
ApplyScan ==
    /\ call.fn = "get_best_premium"
    /\ call.result = <<>>
    /\ LET a == call.args
       IN  call' = [call EXCEPT !.result =
               <<get_best_premium(a.upbit,
                                  ScanQuote(a.okx, a.okx_funding),
                                  ScanQuote(a.gate, a.gate_funding),
                                  a.cached_rate)>>]
    /\ UNCHANGED <<running, monitor, positions, active_tasks, usdt_rates, chk,
                   pc, data, loc, att, adapter>>

\* Lines 417-451 of _execute_entry on the quotes of call.args.
ApplySizes ==
    /\ call.fn = "sizes"
    /\ call.result = <<>>
    /\ LET a == call.args
       IN  call' = [call EXCEPT !.result =
               <<EntrySizes(a.symbol, a.upbit_ask, a.global_bid,
                            a.global_bid_size, a.global_exchange)>>]
    /\ UNCHANGED <<running, monitor, positions, active_tasks, usdt_rates, chk,
                   pc, data, loc, att, adapter>>

\* calculate_premium(korean_price, 'upbit', global_price, 'okx').
ApplyCalc ==
    /\ call.fn = "calculate_premium"
    /\ call.result = <<>>
    /\ LET a == call.args
       IN  call' = [call EXCEPT !.result =
               <<calculate_premium(a.korean_price, a.cached_rate,
                                   a.global_price)>>]
    /\ UNCHANGED <<running, monitor, positions, active_tasks, usdt_rates, chk,
                   pc, data, loc, att, adapter>>

\* _round_size(size, exchange, symbol).
ApplyRound ==
    /\ call.fn = "_round_size"
    /\ call.result = <<>>
    /\ LET a == call.args
       IN  call' = [call EXCEPT !.result =
               <<round_size(a.size, a.exchange, a.symbol)>>]
    /\ UNCHANGED <<running, monitor, positions, active_tasks, usdt_rates, chk,
                   pc, data, loc, att, adapter>>

\* Lines 310-314 of _handle_entry on the entries of call.args.
ApplyAverage ==
    /\ call.fn = "avg_entry_premium"
    /\ call.result = <<>>
    /\ call' = [call EXCEPT !.result = <<avg_entry_premium(call.args)>>]
    /\ UNCHANGED <<running, monitor, positions, active_tasks, usdt_rates, chk,
                   pc, data, loc, att, adapter>>

PureNext == ApplyScan \/ ApplySizes \/ ApplyCalc \/ ApplyRound \/ ApplyAverage

PureSpec == PureInit /\ [][PureNext]_vars

\* ------------------------------------------------- an exchange adapter
\* BaseExchange.request and _check_rate_limit (exchanges/base.py 119-249)
\* on the upbit adapter, with the coroutines of Callers calling request()
\* as the checks of a batch do (split_entry_strategy.py 117-121, 208).
\* Time is counted in ticks of 1 / TicksPerSecond second.
TicksPerSecond == 3
MaxTime == 12
Callers == {1, 2}

\* rate_limits['upbit'] (234): 1.5 requests per second, 90 per minute.
requests_per_minute == 90

\* min_interval = 1.0 / requests_per_second (243), in ticks.
min_interval == (60 * TicksPerSecond) \div requests_per_minute

\* The default of the parameter retry_count (125).
retry_count == 3

\* What one HTTP attempt can come to: a response with a status below 400
\* and a JSON body, a 429, another status of 400 or more, a body that is
\* not JSON, an aiohttp.ClientError, or another exception (a timeout).
Outcomes == {"ok", "s429", "s4xx", "malformed", "client_error", "other_error"}

Methods == {"GET", "POST", "DELETE"}

Min(a, b) == IF a < b THEN a ELSE b

\* _handle_response without the inner try of 216-220: a body that is not
\* JSON raises out of request().
handle_response_unparsed(outcome) ==
    IF outcome = "ok" THEN "data"
    ELSE IF outcome = "malformed" THEN "raised" ELSE "None"

\* What request() returns for the outcome of the attempt it ends on:
\* _handle_response (206-225) gives the parsed body, or None for a status of
\* 400 or more and for a body that does not parse; the except clauses
\* (191-202) give None.
handle_response(outcome) == IF outcome = "ok" THEN "data" ELSE "None"

\* retries with every failed attempt retried while attempts remain.
retries_on_any_failure(method, outcome, attempt) ==
    outcome # "ok" /\ attempt < retry_count - 1

\* Whether the loop goes on to another attempt (152, 167, 179, 192).
retries(method, outcome, attempt) ==
    /\ attempt < retry_count - 1
    /\ \/ outcome = "s429" /\ method \in {"GET", "POST"}
       \/ outcome = "client_error"

\* wait_time (153, 168, 180, 193), in seconds.
wait_time(outcome, attempt) ==
    Min(2 ^ attempt, IF outcome = "client_error" THEN 30 ELSE 60)

NoRequest ==
    [pc |-> "idle", method |-> "GET", attempt |-> 0, wake |-> 0,
     http |-> 0, last |-> "none", waits |-> <<>>, result |-> "none"]

\* The clock is past the first interval, as time.time() is against the
\* initial last_request_time of 0 (27).
AdapterInit ==
    /\ running = FALSE
    /\ monitor = "none"
    /\ positions = [s \in Symbols |-> DefaultPosition]
    /\ active_tasks = {}
    /\ usdt_rates = 0
    /\ chk = [s \in Symbols |-> FALSE]
    /\ pc = [s \in Symbols |-> "none"]
    /\ data = [s \in Symbols |-> NoData]
    /\ loc = [s \in Symbols |-> NoLoc]
    /\ att = [s \in Symbols |-> NoAttempt]
    /\ call = NoCall
    /\ adapter = [now |-> min_interval, last_request_time |-> 0,
                  req |-> [c \in Callers |-> NoRequest], sent |-> <<>>]

StrategyUnchanged ==
    UNCHANGED <<running, monitor, positions, active_tasks, usdt_rates, chk,
                pc, data, loc, att, call>>

\* The HTTP request of caller c goes out (148, 163, 175, 188) right after
\* last_request_time is set (249): nothing is awaited in between.
Sent(c, r) ==
    adapter' = [adapter EXCEPT
        !.last_request_time = adapter.now,
        !.sent = IF adapter.sent = <<>> THEN <<adapter.now>>
                 ELSE <<adapter.sent[Len(adapter.sent)], adapter.now>>,
        !.req[c] = [r EXCEPT !.pc = "http", !.http = r.http + 1,
                             !.wake = 0]]

\* request() is called (119-133), by a coroutine that has no call running:
\* its first call, or the next one after a call that has returned (a check
\* asks for the order books of its venues one after the other, 208, 233).
Request(c) ==
    /\ adapter.req[c].pc \in {"idle", "done"}
    /\ \E m \in Methods :
         adapter' = [adapter EXCEPT
             !.req[c] = [NoRequest EXCEPT !.pc = "limit", !.method = m]]
    /\ StrategyUnchanged

\* _check_rate_limit up to its await (229-247): the time since the last
\* request is read; a caller that is early goes to sleep for the rest of
\* the interval, another sets last_request_time and sends.
check_rate_limit(c) ==
    /\ adapter.req[c].pc = "limit"
    /\ LET r == adapter.req[c]
           time_since_last == adapter.now - adapter.last_request_time
       IN  IF time_since_last < min_interval
           THEN adapter' = [adapter EXCEPT !.req[c] = [r EXCEPT
                    !.pc = "rl_sleep",
                    !.wake = adapter.now + (min_interval - time_since_last)]]
           ELSE Sent(c, r)
    /\ StrategyUnchanged

\* The sleep of line 247 is over: last_request_time is set (249) and the
\* request is sent.
RateLimitWake(c) ==
    /\ adapter.req[c].pc = "rl_sleep"
    /\ adapter.now >= adapter.req[c].wake
    /\ Sent(c, adapter.req[c])
    /\ StrategyUnchanged

\* The attempt of caller c comes to its outcome (148-202).
Respond(c) ==
    /\ adapter.req[c].pc = "http"
    /\ \E o \in Outcomes :
         LET r == [adapter.req[c] EXCEPT !.last = o] IN
         IF retries(r.method, o, r.attempt)
         THEN adapter' = [adapter EXCEPT !.req[c] = [r EXCEPT
                  !.pc = "backoff",
                  !.waits = Append(r.waits, wait_time(o, r.attempt)),
                  !.wake = adapter.now
                             + TicksPerSecond * wait_time(o, r.attempt)]]
         ELSE adapter' = [adapter EXCEPT !.req[c] = [r EXCEPT
                  !.pc = "done",
                  !.result = handle_response(o)]]
    /\ StrategyUnchanged

\* The sleep before a retry is over (155-156, 195-196): the loop takes its
\* next attempt, or ends with None when none is left (204).
BackoffWake(c) ==
    /\ adapter.req[c].pc = "backoff"
    /\ adapter.now >= adapter.req[c].wake
    /\ LET r == adapter.req[c] IN
       IF r.attempt + 1 < retry_count
       THEN adapter' = [adapter EXCEPT !.req[c] = [r EXCEPT
                !.pc = "limit", !.attempt = r.attempt + 1, !.wake = 0]]
       ELSE adapter' = [adapter EXCEPT !.req[c] = [r EXCEPT
                !.pc = "done", !.result = "None", !.wake = 0]]
    /\ StrategyUnchanged

\* Time passes; a coroutine whose sleep is over runs before it passes on,
\* and so does one that is ready to run.
Advance ==
    /\ adapter.now < MaxTime
    /\ \A c \in Callers :
         /\ adapter.req[c].pc \in {"rl_sleep", "backoff"} =>
               adapter.now < adapter.req[c].wake
         /\ adapter.req[c].pc # "limit"
    /\ adapter' = [adapter EXCEPT !.now = adapter.now + 1]
    /\ StrategyUnchanged

AdapterNext ==
    \/ Advance
    \/ \E c \in Callers : Request(c)
    \/ \E c \in Callers : check_rate_limit(c)
    \/ \E c \in Callers : RateLimitWake(c)
    \/ \E c \in Callers : Respond(c)
    \/ \E c \in Callers : BackoffWake(c)

AdapterSpec == AdapterInit /\ [][AdapterNext]_vars

\* One coroutine calling request() time after time, with the scheduling of
\* asyncio: the event loop runs every coroutine that is ready, a sleep ends
\* when its time has come, and an HTTP attempt ends with a response or with
\* an exception (the session's timeout), so no step that stays enabled is
\* put off for ever.
FairCallers == {1}

AdapterFairNext ==
    \/ Advance
    \/ \E c \in FairCallers : Request(c)
    \/ \E c \in FairCallers : check_rate_limit(c)
    \/ \E c \in FairCallers : RateLimitWake(c)
    \/ \E c \in FairCallers : Respond(c)
    \/ \E c \in FairCallers : BackoffWake(c)

AdapterFairSpec ==
    /\ AdapterInit
    /\ [][AdapterFairNext]_vars
    /\ WF_vars(Advance)
    /\ \A c \in FairCallers :
         /\ WF_vars(check_rate_limit(c))
         /\ WF_vars(RateLimitWake(c))
         /\ WF_vars(Respond(c))
         /\ WF_vars(BackoffWake(c))

\* ------------------------------------------------------------ properties
\* The positions of an entry task and of an exit task.
EntryPcs == {"e_created", "e_scan", "e_quotes", "e_legs", "e_comp", "e_sleep"}
ExitPcs == {"x_created", "x_scan", "x_books", "x_legs", "x_comp", "x_sleep"}

\* C1: for every symbol, whenever no slice attempt of the symbol is in
\* flight (also after an attempt that failed, raised or was cancelled),
\* count equals the number of slice records in entries.
C1_CountIsLenEntries ==
    \A s \in Symbols :
        att[s].result # "pending" =>
            positions[s].count = Len(positions[s].entries)

\* C2: an entry attempt whose two leg orders are both answered with a
\* response is reported successful: one slice record is appended, count goes
\* up by 1, total_krw by entry_amount_krw, and the average is recomputed.
C2_BothLegsFilledSucceeds ==
    \A s \in Symbols :
        LET a == att[s]
            position == positions[s]
        IN  (/\ a.kind = "entry"
             /\ a.result \in {"True", "False"}
             /\ a.spot_ok /\ a.futures_ok) =>
                /\ a.result = "True"
                /\ Len(position.entries) = Len(a.before) + 1
                /\ SubSeq(position.entries, 1, Len(a.before)) = a.before
                /\ position.count = Len(a.before) + 1
                /\ position.total_krw = (Len(a.before) + 1) * entry_amount_krw
                /\ position.avg_entry_premium =
                       FloorDiv(SumWeighted(position.entries),
                                SumAmount(position.entries))

\* C3: an entry attempt of which exactly one leg order is answered with a
\* response places exactly one compensating order, on the venue of that leg
\* and with the opposite side (sell on upbit after the spot buy, buy on the
\* foreign venue after the short), and returns False.
C3_EntryPartialFailureCompensated ==
    \A s \in Symbols :
        LET a == att[s] IN
        (/\ a.kind = "entry"
         /\ a.result \in {"True", "False"}
         /\ a.spot_ok # a.futures_ok) =>
            /\ a.result = "False"
            /\ Len(a.orders) = 3
            /\ a.orders[3].role = "comp"
            /\ IF a.spot_ok
               THEN a.orders[3].exchange = "upbit" /\ a.orders[3].side = "sell"
               ELSE /\ a.orders[3].exchange = a.orders[2].exchange
                    /\ a.orders[3].exchange # "upbit"
                    /\ a.orders[3].side = "buy"

\* C4: an exit attempt of which exactly one unwind order is answered with a
\* response places exactly one compensating order, on the venue of that
\* order, with the opposite side and the same requested size; the popped
\* slice is back at the front of entries; the attempt returns False.
C4_ExitPartialFailureCompensated ==
    \A s \in Symbols :
        LET a == att[s] IN
        (/\ a.kind = "exit"
         /\ a.result \in {"True", "False"}
         /\ a.spot_ok # a.futures_ok) =>
            /\ a.result = "False"
            /\ Len(a.orders) = 3
            /\ LET leg == a.orders[IF a.spot_ok THEN 1 ELSE 2]
                   comp == a.orders[3]
               IN  /\ leg.role = "leg" /\ comp.role = "comp"
                   /\ comp.exchange = leg.exchange
                   /\ comp.side # leg.side
                   /\ comp.size = leg.size
            /\ positions[s].entries = a.before

\* An exit attempt that sold on upbit, got None from the foreign venue,
\* bought back on upbit and returned False with its slice restored.
C4_Witness ==
    \E s \in Symbols :
        /\ att[s].kind = "exit" /\ att[s].result = "False"
        /\ att[s].spot_ok /\ ~att[s].futures_ok
        /\ Len(att[s].orders) = 3
        /\ att[s].orders[3] = Order("comp", "upbit", "buy", att[s].orders[1].size)
        /\ positions[s].entries = att[s].before
        /\ Len(att[s].before) = 2

C6_EntryStopStatus ==
    [][\A s \in Symbols :
          (pc[s] \in EntryPcs /\ pc'[s] = "none" /\ running') =>
              positions'[s].status =
                  IF positions'[s].count > 0 THEN "holding" ELSE "idle"]_vars

\* C7: whenever an exit attempt returns False, by whatever path, entries is
\* the sequence it was before the attempt.
C7_ExitFalseRestoresEntries ==
    \A s \in Symbols :
        (att[s].kind = "exit" /\ att[s].result = "False") =>
            positions[s].entries = att[s].before

\* C8: when the loop of _handle_exit stops while the engine runs and slices
\* remain open, the status is back to 'holding'.
C8_ExitStopStatus ==
    [][\A s \in Symbols :
          (/\ pc[s] \in ExitPcs /\ pc'[s] = "none" /\ running'
           /\ positions'[s].count > 0) =>
              positions'[s].status = "holding"]_vars

\* C9: for every symbol, in every state outside an in-flight slice attempt,
\* total_krw = count * entry_amount_krw.
C9_TotalIsCountTimesAmount ==
    \A s \in Symbols :
        att[s].result # "pending" =>
            positions[s].total_krw = positions[s].count * entry_amount_krw

\* One of two open slices has been unwound: one slice and its amount are
\* left.
C9_Witness ==
    \E s \in Symbols :
        /\ att[s].kind = "exit" /\ att[s].result = "True"
        /\ Len(att[s].before) = 2
        /\ positions[s].count = 1
        /\ positions[s].total_krw = entry_amount_krw

Occupied(pos) ==
    {s \in Symbols : pos[s].status \in {"entering", "holding", "exiting"}}

\* C11: the number of symbols in 'entering', 'holding' or 'exiting' never
\* exceeds the configured maximum: a symbol that leaves 'idle' for 'entering'
\* does so only within the cap, also when several symbols meet the entry
\* conditions in one batch.
C11_ConcurrentPositionsCapped ==
    [][\A s \in Symbols :
          (positions[s].status = "idle" /\ positions'[s].status = "entering")
              => Cardinality(Occupied(positions')) <= max_positions]_vars

\* C12: per symbol at most one entry or exit task is in flight: a task in
\* flight is a key of active_tasks, and a check (the only place that creates
\* a task) runs for a symbol only while it has no task and no key.
C12_OneTaskPerSymbol ==
    \A s \in Symbols :
        /\ pc[s] # "none" => s \in active_tasks
        /\ chk[s] => (s \notin active_tasks /\ pc[s] = "none")

\* A batch is being checked while another symbol's task is in flight: the
\* batch has skipped that symbol.
C12_Witness ==
    \E s \in Symbols, u \in Symbols :
        /\ s # u
        /\ pc[s] \notin {"none", "e_created", "x_created"}
        /\ s \in active_tasks
        /\ ~chk[s]
        /\ chk[u]

\* C13: stop() does not cut short an attempt that has dispatched its leg
\* orders: no attempt with orders placed ends cancelled; it runs on to its
\* True / False return.
C13_DispatchedAttemptCompletes ==
    \A s \in Symbols :
        att[s].result = "cancelled" => att[s].orders = <<>>

\* C14: once global_exchange of a position is set, no step changes it,
\* except the reset of _handle_exit after the exit of the last slice.
C14_GlobalExchangeFixed ==
    [][\A s \in Symbols :
          positions[s].global_exchange # NoExchange =>
              \/ positions'[s].global_exchange = positions[s].global_exchange
              \/ /\ pc[s] = "x_legs"
                 /\ positions[s].count = 1
                 /\ positions'[s] = DefaultPosition]_vars

\* An entry task has set global_exchange to okx, and the re-scan of its loop
\* has selected gate for the slice attempt.
C14_Witness ==
    \E s \in Symbols :
        /\ pc[s] = "e_quotes"
        /\ positions[s].status = "entering"
        /\ positions[s].global_exchange = "okx"
        /\ data[s].global_exchange = "gate"

\* C15: a successful exit slice removes the slice that was appended first
\* among the open ones and leaves the others in their order.
C15_FifoUnwind ==
    \A s \in Symbols :
        LET a == att[s] IN
        (a.kind = "exit" /\ a.result = "True") =>
            /\ positions[s].entries = Tail(a.before)
            /\ \A i \in 2..Len(a.before) :
                   a.before[1].timestamp < a.before[i].timestamp

\* Of two open slices the first has been unwound and the second is left.
C15_Witness ==
    \E s \in Symbols :
        /\ att[s].kind = "exit" /\ att[s].result = "True"
        /\ Len(att[s].before) = 2
        /\ positions[s].entries = <<att[s].before[2]>>
        /\ att[s].orders[1].size = att[s].before[1].spot_size

\* C16: when a successful exit brings count to 0, the position is back in
\* the default empty state: status 'idle', total_krw 0, no entries,
\* global_exchange None, avg_entry_premium 0.
C16_ResetAfterLastExit ==
    \A s \in Symbols :
        (/\ att[s].kind = "exit" /\ att[s].result = "True"
         /\ positions[s].count = 0) =>
            positions[s] = DefaultPosition

\* The only open slice of a position on gate has been unwound with two
\* orders, and the position is the default one again.
C16_Witness ==
    \E s \in Symbols :
        /\ att[s].kind = "exit" /\ att[s].result = "True"
        /\ Len(att[s].before) = 1
        /\ Len(att[s].orders) = 2
        /\ att[s].orders[2].exchange = "gate"
        /\ positions[s] = DefaultPosition

C18_NoExitOnEmptyPosition ==
    \A s \in Symbols :
        att[s].kind = "exit" =>
            /\ att[s].result # "True" => positions[s].count > 0
            /\ att[s].orders # <<>> => att[s].before # <<>>

\* A position whose only slice record is gone (count 1, no entries) has been
\* through a later batch of checks: no task, no attempt, no order.
C18_Witness ==
    \E s \in Symbols :
        /\ positions[s].count = 1
        /\ positions[s].entries = <<>>
        /\ running /\ monitor = "alive"
        /\ ~chk[s] /\ pc[s] = "none" /\ s \notin active_tasks
        /\ att[s] = NoAttempt

\* C19: an entry attempt that fails before its legs are dispatched (a book
\* is missing, the rate is unavailable, the sizing or the minimum-value
\* check rejects) has placed no order, and count, total_krw and entries are
\* what they were.
C19_PreDispatchFailureLeavesNothing ==
    [][\A s \in Symbols :
          (pc[s] = "e_quotes" /\ att'[s].result = "False") =>
              /\ att'[s].orders = <<>>
              /\ positions'[s].count = positions[s].count
              /\ positions'[s].total_krw = positions[s].total_krw
              /\ positions'[s].entries = positions[s].entries]_vars

\* An entry attempt has returned False for want of a rate: no order, no
\* slice.
C19_Witness ==
    \E s \in Symbols :
        /\ att[s].kind = "entry" /\ att[s].result = "False"
        /\ usdt_rates = 0
        /\ att[s].orders = <<>>
        /\ positions[s].count = 0
        /\ positions[s].total_krw = 0
        /\ positions[s].entries = <<>>

ScanVenues(a) ==
    <<[exchange |-> "okx", book |-> a.okx, answer |-> a.okx_funding],
      [exchange |-> "gate", book |-> a.gate, answer |-> a.gate_funding]>>

\* C26: _get_best_premium selects, among the foreign venues with a valid
\* quote and a non-negative funding rate, the one with the highest bid: the
\* venue it returns never has a negative funding rate, and whenever the
\* domestic quote and such a venue exist it returns one of them with the
\* highest bid among them.
C26_BestVenueHasNonNegativeFunding ==
    (call.fn = "get_best_premium" /\ call.result # <<>>) =>
        LET a == call.args
            d == call.result[1]
            v == ScanVenues(a)
            eligible == {i \in 1..2 : /\ v[i].book.kind = "ok"
                                      /\ funding_of(v[i].answer) >= 0}
        IN  /\ d.ok => d.funding_rate >= 0
            /\ (a.upbit.kind = "ok" /\ eligible # {}) =>
                  /\ d.ok
                  /\ \E i \in eligible : /\ d.global_exchange = v[i].exchange
                                         /\ \A j \in eligible :
                                                v[j].book.bid <= v[i].book.bid

C21_ShortSizeIsNotionalOverBid ==
    (call.fn = "sizes" /\ call.result # <<>>) =>
        LET a == call.args
            z == call.result[1]
            kept == 10000 - EXCHANGE_FEES(a.global_exchange)
        IN  /\ z.ok
            /\ z.futures_size * kept <= z.spot_size * 10000
            /\ z.futures_size >= z.spot_size

\* C22: the two unwind orders of an exit slice carry the sizes recorded in
\* the slice that was popped, spot_size on the domestic sell and
\* futures_size on the foreign buy-back.
C22_ExitLegSizesAreSliceSizes ==
    \A s \in Symbols :
        (att[s].kind = "exit" /\ Len(att[s].orders) >= 2) =>
            LET entry == Head(att[s].before)
            IN  /\ att[s].orders[1].side = "sell"
                /\ att[s].orders[1].size = entry.spot_size
                /\ att[s].orders[2].side = "buy"
                /\ att[s].orders[2].size = entry.futures_size

\* C23: both leg orders of a slice attempt are dispatched before the answer
\* of either is awaited, and the attempt goes on only once both have
\* answered: an attempt that has an order out has both legs out, the
\* domestic one and the foreign one; while an exit attempt waits for them
\* neither answer has been taken; an attempt that returned True had both
\* answered with a response.
C23_BothLegsOutBeforeAwait ==
    \A s \in Symbols :
        LET a == att[s] IN
        /\ a.orders # <<>> =>
              /\ Len(a.orders) >= 2
              /\ a.orders[1].role = "leg" /\ a.orders[1].exchange = "upbit"
              /\ a.orders[2].role = "leg" /\ a.orders[2].exchange # "upbit"
        /\ pc[s] = "x_legs" =>
              /\ Len(a.orders) = 2
              /\ a.result = "pending"
              /\ ~a.spot_ok /\ ~a.futures_ok
        /\ (a.result = "True" /\ a.kind # "none") =>
              a.spot_ok /\ a.futures_ok

\* An exit attempt waits for its two unwind orders.
C23_Witness ==
    \E s \in Symbols :
        /\ pc[s] = "x_legs"
        /\ att[s].kind = "exit"
        /\ Len(att[s].orders) = 2

\* C24: within the loop of one symbol's entry or exit task a slice attempt
\* starts only after the previous one has returned and the wait between
\* slices has passed: the scan that opens an attempt is reached only from
\* the start of the task or from the wait, an attempt is opened only by
\* that scan and only when no attempt of the symbol is pending, and the
\* wait is reached only from an attempt that returned True.
C24_AttemptsInSequence ==
    [][\A s \in Symbols :
        /\ (pc'[s] = "x_scan" /\ pc[s] # "x_scan") =>
              pc[s] \in {"x_created", "x_sleep"}
        /\ (pc'[s] = "e_scan" /\ pc[s] # "e_scan") =>
              pc[s] \in {"e_created", "e_sleep"}
        /\ (pc'[s] \in {"x_sleep", "e_sleep"} /\ pc[s] # pc'[s]) =>
              /\ pc[s] \in {"x_legs", "e_legs"}
              /\ att'[s].result = "True"
        /\ (att'[s].result = "pending" /\ att[s].result # "pending") =>
              /\ pc[s] \in {"x_scan", "e_scan"}
              /\ att'[s].orders = <<>>
      ]_vars

\* The wait after a successful exit slice has passed and the loop is at the
\* scan that opens the next attempt.
C24_Witness ==
    \E s \in Symbols :
        /\ pc[s] = "x_scan"
        /\ att[s].kind = "exit"
        /\ att[s].result = "True"
        /\ positions[s].count > 0

\* C25: every slice attempt, and so every paired dispatch, follows in its
\* loop iteration a scan whose premium met the threshold of its kind
\* (premium <= entry_threshold for an entry, premium >= exit_threshold for
\* an exit); a scan without data or short of the threshold opens no attempt.
C25_DispatchFollowsQualifyingScan ==
    \A s \in Symbols :
        att[s].kind # "none" => att[s].threshold_met

\* An exit attempt has its two orders out.
C25_Witness ==
    \E s \in Symbols :
        /\ att[s].kind = "exit"
        /\ att[s].threshold_met
        /\ att[s].result = "pending"
        /\ Len(att[s].orders) = 2

\* C28: when the rate of the domestic venue is missing, the check of a
\* symbol starts no task: a task that has just been created was created
\* with a rate present (the rate, once present, is never removed).
C28_NoTaskWithoutRate ==
    \A s \in Symbols :
        pc[s] \in {"e_created", "x_created"} => usdt_rates # 0

\* C29: while the strategy runs, a check that ends, with or without data
\* from its scan, leaves the monitor task alive and the other checks of the
\* batch in progress.
C29_CheckFailureKeepsMonitor ==
    [][\A s \in Symbols :
        (chk[s] /\ ~chk'[s] /\ running') =>
            /\ monitor' = "alive"
            /\ \A u \in Symbols \ {s} : chk'[u] = chk[u]
      ]_vars

\* The check of one symbol has ended without starting a task while another
\* check of the batch is still in progress.
C29_Witness ==
    \E s \in Symbols, u \in Symbols :
        /\ running /\ monitor = "alive"
        /\ ~chk[s] /\ pc[s] = "none" /\ s \notin active_tasks
        /\ att[s] = NoAttempt
        /\ chk[u]

\* C30: the monitor loop evaluates the symbols one at a time: the checks of
\* two different symbols are never in progress together.
C30_OneCheckAtATime ==
    \A s \in Symbols, u \in Symbols :
        (chk[s] /\ chk[u]) => s = u

\* The edges of the status of a position.
StatusEdges ==
    {<<"idle", "entering">>, <<"entering", "holding">>,
     <<"entering", "idle">>, <<"holding", "exiting">>,
     <<"exiting", "holding">>, <<"exiting", "idle">>}

\* C38: once the strategy has been started, the status of a symbol changes
\* only along idle->entering, entering->holding, entering->idle,
\* holding->exiting, exiting->holding and exiting->idle, and an entry task
\* is started only for a position that is idle, so that a position in
\* 'holding' receives no entry slice.
C38_StatusEdges ==
    [][\A s \in Symbols :
        /\ (monitor # "none" /\ positions'[s].status # positions[s].status) =>
              <<positions[s].status, positions'[s].status>> \in StatusEdges
        /\ (pc'[s] = "e_created" /\ pc[s] # "e_created") =>
              positions[s].status = "idle"
        /\ pc'[s] \in EntryPcs \ {"e_created"} =>
              positions'[s].status = "entering"
      ]_vars

\* An exit task has taken a position from 'holding' to 'exiting' and back
\* to 'idle'.
C38_Witness ==
    \E s \in Symbols :
        /\ monitor = "alive"
        /\ positions[s].status = "idle"
        /\ att[s].kind = "exit"
        /\ att[s].result = "True"

C40_EndedTaskLeavesActiveTasks ==
    \A s \in Symbols : s \in active_tasks => pc[s] # "none"

\* C32: the average of _handle_entry is the notional-weighted mean of the
\* premiums of the open slices, to the unit in which premiums are counted:
\* avg * sum(amount) is within one unit per amount of sum(premium * amount),
\* whatever the order of the slices; three equal slices at -1.2, -1.1 and
\* -1.0 give -1.1.
C32_AverageIsWeightedMean ==
    (call.fn = "avg_entry_premium" /\ call.result # <<>>) =>
        LET es == call.args
            r == call.result[1]
            n == Len(es)
        IN  /\ r * SumAmount(es) <= SumWeighted(es)
            /\ SumWeighted(es) < (r + 1) * SumAmount(es)
            /\ \A f \in Permutations(1..n) :
                   avg_entry_premium([i \in 1..n |-> es[f[i]]]) = r
            /\ {es[i].premium : i \in 1..n} = {-120, -110, -100} /\ n = 3
                   => r = -110

\* The average of the slices at -1.0, -1.1 and -1.2 has been taken.
C32_Witness ==
    /\ call.fn = "avg_entry_premium"
    /\ call.result # <<>>
    /\ Len(call.args) = 3
    /\ call.args[1].premium = -100
    /\ call.args[2].premium = -110
    /\ call.args[3].premium = -120

\* C33: for a foreign price above 0, calculate_premium returns
\* ((korean_price / rate) - global_price) / global_price * 100, here in
\* basis points rounded down (103000, 1000, 100 gives 3.0 and 99000, 1000,
\* 100 gives -1.0); for a foreign price of 0 or less it returns 0.
C33_PremiumFormula ==
    (call.fn = "calculate_premium" /\ call.result # <<>>) =>
        LET a == call.args
            r == call.result[1]
            den == a.global_price * r.usdt_rate
            num == (a.korean_price - den) * 10000
        IN  /\ a.global_price > 0 =>
                  /\ r.premium * den <= num
                  /\ num < (r.premium + 1) * den
            /\ a.global_price <= 0 => r.premium = 0
            /\ (a.korean_price = 103000 /\ a.cached_rate = 1000
                   /\ a.global_price = 100) => r.premium = 300
            /\ (a.korean_price = 99000 /\ a.cached_rate = 1000
                   /\ a.global_price = 100) => r.premium = -100

\* calculate_premium(103000, 'upbit', 100, 'okx') at a rate of 1000 has
\* returned.
C33_Witness ==
    /\ call.fn = "calculate_premium"
    /\ call.result # <<>>
    /\ call.args.korean_price = 103000
    /\ call.args.cached_rate = 1000
    /\ call.args.global_price = 100

\* C34: without a cached rate for the domestic venue calculate_premium and
\* _get_best_premium compute with the rate 1365 and report it as usdt_rate
\* (136500 KRW against 100 USD gives a premium of 0); with a cached rate
\* they compute with and report that rate.
C34_FallbackRateUsedAndReported ==
    /\ (call.fn = "calculate_premium" /\ call.result # <<>>) =>
          LET a == call.args
              r == call.result[1]
          IN  /\ a.cached_rate = 0 => r.usdt_rate = FallbackRate
              /\ a.cached_rate # 0 => r.usdt_rate = a.cached_rate
              /\ (a.cached_rate = 0 /\ a.korean_price = 136500
                     /\ a.global_price = 100) => r.premium = 0
    /\ (call.fn = "get_best_premium" /\ call.result # <<>>) =>
          LET a == call.args
              d == call.result[1]
          IN  d.ok =>
                /\ a.cached_rate = 0 => d.usdt_rate = FallbackRate
                /\ a.cached_rate # 0 => d.usdt_rate = a.cached_rate
                /\ d.premium =
                     PremiumBp(a.upbit.ask, d.usdt_rate, d.global_bid)

\* A scan without a cached rate has returned data.
C34_Witness ==
    /\ call.fn = "get_best_premium"
    /\ call.result # <<>>
    /\ call.args.cached_rate = 0
    /\ call.result[1].ok
    /\ call.result[1].usdt_rate = FallbackRate

\* C35: for every size x of at least 0, _round_size returns a size, never
\* above x, that _round_size leaves as it is.
C35_RoundSizeIdempotentDown ==
    (call.fn = "_round_size" /\ call.result # <<>>) =>
        LET a == call.args
            r == call.result[1]
        IN  /\ r # Raised
            /\ r <= a.size
            /\ round_size(r, a.exchange, a.symbol) = r

\* C31: any two HTTP requests an adapter sends, also from coroutines that
\* run concurrently, are at least min_interval apart.
C31_RequestsSpacedByMinInterval ==
    Len(adapter.sent) = 2 =>
        adapter.sent[2] - adapter.sent[1] >= min_interval

\* C36: request() never raises for a recoverable failure: a call that has
\* ended returned the parsed body when its last attempt gave a good
\* response, and None when it gave a status of 400 or more, a body that is
\* not JSON, a client error or another exception.
C36_RequestReturnsNoneOnFailure ==
    \A c \in DOMAIN adapter.req :
        LET r == adapter.req[c] IN
        /\ r.result \in {"none", "data", "None"}
        /\ r.pc = "done" =>
              r.result = (IF r.last = "ok" THEN "data" ELSE "None")
        /\ r.pc # "done" => r.result = "none"

\* A call whose last attempt met a body that is not JSON has returned None.
C36_Witness ==
    \E c \in DOMAIN adapter.req :
        /\ adapter.req[c].pc = "done"
        /\ adapter.req[c].last = "malformed"
        /\ adapter.req[c].result = "None"

\* The steps of request(): at most retry_count HTTP attempts; another
\* attempt only after a 429 on GET or POST or after a client error, and
\* only while attempts remain, after a wait of min(2^attempt, 60)
\* respectively min(2^attempt, 30) seconds; otherwise the call returns what
\* the attempt gave, None after any other exception.
BoundedRetries ==
    [][\A c \in DOMAIN adapter.req :
        LET r == adapter.req[c]
            q == adapter'.req[c]
        IN  /\ q.http <= retry_count
            /\ q.http <= q.attempt + 1
            /\ Len(q.waits) = q.attempt
                  \/ (q.pc = "backoff" /\ Len(q.waits) = q.attempt + 1)
            /\ \A k \in 1..Len(q.waits) : q.waits[k] = 2 ^ (k - 1)
            /\ (r.pc = "http" /\ q.pc = "backoff") =>
                  /\ r.attempt < retry_count - 1
                  /\ q.last \in {"s429", "client_error"}
                  /\ q.last = "s429" => r.method \in {"GET", "POST"}
                  /\ q.wake = adapter.now + TicksPerSecond * 2 ^ r.attempt
            /\ (r.pc = "http" /\ q.pc = "done") =>
                  /\ q.http = r.http
                  /\ q.last \in {"s4xx", "malformed", "other_error"}
                        => q.result = "None"
            /\ (r.pc = "http" /\ q.last \in {"s4xx", "malformed",
                                                "other_error", "ok"}) =>
                  q.pc = "done"
      ]_vars

\* A call that has started ends, as long as the modelled time lasts.
RequestTerminates ==
    \A c \in FairCallers :
        (adapter.req[c].pc \in {"limit", "rl_sleep", "http", "backoff"})
            ~> (adapter.req[c].pc = "done" \/ adapter.now = MaxTime)

\* C37: request() always terminates after at most retry_count HTTP
\* attempts: it retries only on a 429 (GET, POST) or on a client error while
\* attempts remain, with a backoff of min(2^attempt, 60) respectively
\* min(2^attempt, 30) seconds, and returns the outcome of the last attempt
\* otherwise; any other exception ends the call with None without a retry.
C37_TerminatesWithinRetryCount == BoundedRetries /\ RequestTerminates

\* A GET has made its third attempt after two waits and has ended on it.
C37_Witness ==
    \E c \in DOMAIN adapter.req :
        /\ adapter.req[c].pc = "done"
        /\ adapter.req[c].http = retry_count
        /\ adapter.req[c].waits = <<1, 2>>
        /\ adapter.req[c].last = "s429"
        /\ adapter.req[c].result = "None"

====
